---- MODULE Spec2Model ----
(***************************************************************************)
(* A model of json-parser-rs: the tokenizer (src/src/tokenize.rs), the     *)
(* recursive-descent parser (src/src/parse.rs) and the entry point         *)
(* (src/src/lib.rs).                                                       *)
(*                                                                         *)
(* Characters are Unicode code points (naturals); a string is a sequence   *)
(* of code points.  A Peekable<Chars> over the text s is the pair (s, i),  *)
(* i the index of the character the next chars.next() returns; a           *)
(* Peekable<IntoIter<Token>> is such a pair over the token sequence.       *)
(* A panic (unwrap on None, todo!()) is an outcome of its own kind.        *)
(***************************************************************************)
EXTENDS Integers, Sequences, FiniteSets, TLC

VARIABLES input, pos, tokens, cursor, pc, result

vars == <<input, pos, tokens, cursor, pc, result>>

(***************************************************************************)
(* Characters the code names.                                              *)
(***************************************************************************)
CH_TAB == 9
CH_LF == 10
CH_FF == 12
CH_CR == 13
CH_SPACE == 32
CH_QUOTE == 34
CH_PLUS == 43
CH_COMMA == 44
CH_MINUS == 45
CH_DOT == 46
CH_0 == 48
CH_9 == 57
CH_COLON == 58
CH_LBRACKET == 91
CH_BACKSLASH == 92
CH_RBRACKET == 93
CH_UPPER_A == 65
CH_UPPER_E == 69
CH_UPPER_F == 70
CH_a == 97
CH_b == 98
CH_e == 101
CH_f == 102
CH_l == 108
CH_n == 110
CH_r == 114
CH_s == 115
CH_t == 116
CH_u == 117
CH_LBRACE == 123
CH_RBRACE == 125

\* the characters the `b` and `f` arms of unescape_string push
ESC_B == 8
ESC_F == 18

\* the code points char::from_u32 refuses below 0x110000: the surrogates
SURROGATE_FIRST == 55296
SURROGATE_LAST == 57343

\* char::is_ascii_whitespace: space, tab, line feed, form feed, carriage return
is_ascii_whitespace(c) == c \in {CH_SPACE, CH_TAB, CH_LF, CH_FF, CH_CR}

\* char::is_ascii_digit
is_ascii_digit(c) == c \in CH_0..CH_9

\* chars.peek().is_some()
HasNext(s, i) == i <= Len(s)

\* chars.peek().is_some_and(|c| c.is_ascii_digit())
PeekIsDigit(s, i) == HasNext(s, i) /\ is_ascii_digit(s[i])

(***************************************************************************)
(* Tokens (enum Token) and the tokenizer's errors (enum TokenizeError).    *)
(***************************************************************************)
LeftBrace == [type |-> "LeftBrace"]
RightBrace == [type |-> "RightBrace"]
LeftBracket == [type |-> "LeftBracket"]
RightBracket == [type |-> "RightBracket"]
Comma == [type |-> "Comma"]
Colon == [type |-> "Colon"]
TokNull == [type |-> "Null"]
TokFalse == [type |-> "False"]
TokTrue == [type |-> "True"]
TokNumber(f) == [type |-> "Number", num |-> f]
TokString(str) == [type |-> "String", str |-> str]

UnfinishedLiteralValue == [err |-> "UnfinishedLiteralValue"]
InvalidNumber == [err |-> "InvalidNumber", msg |-> "Invalid number provided."]
ParseNumberError(e) == [err |-> "ParseNumberError", cause |-> e]
UnclosedQuotes == [err |-> "UnclosedQuotes"]
CharNotRecognized(c) == [err |-> "CharNotRecognized", ch |-> c]
UnexpectedEof == [err |-> "UnexpectedEof"]

\* Ok(token) / Err(error) of a lexing function, with the cursor it leaves
LexOk(t, i) == [ok |-> TRUE, tok |-> t, pos |-> i]
LexErr(e, i) == [ok |-> FALSE, err |-> e, pos |-> i]

(***************************************************************************)
(* f64.  A finite double is the decimal m * 10^e it was read from,         *)
(* normalised (m has no trailing zero; zero is m = 0, e = 0, and -0.0      *)
(* equals 0.0 as f64's == has it); beyond the double range the value is    *)
(* an infinity or zero.  Distinct normalised decimals of at most 15        *)
(* significant digits inside the normal range are distinct doubles, so     *)
(* equality of these records is equality of the doubles.                   *)
(***************************************************************************)
F64_MAX_10_EXP == 308
F64_MIN_10_EXP == -324

Finite(m, e) == [cls |-> "finite", m |-> m, e |-> e]
Infinite(sign) == [cls |-> "inf", m |-> sign, e |-> 0]

RECURSIVE StripZeros(_, _)
StripZeros(m, e) ==
    IF m = 0 THEN Finite(0, 0)
    ELSE IF m % 10 = 0 THEN StripZeros(m \div 10, e + 1)
    ELSE Finite(m, e)

RECURSIVE NumDigits(_)
NumDigits(m) == IF m < 10 THEN 1 ELSE 1 + NumDigits(m \div 10)

\* the double nearest to sign * m * 10^e  (m >= 0)
ToF64(sign, m, e) ==
    LET n == StripZeros(m, e)
        sci == n.e + NumDigits(n.m) - 1
    IN  IF n.m = 0 THEN n
        ELSE IF sci > F64_MAX_10_EXP THEN Infinite(sign)
        ELSE IF sci < F64_MIN_10_EXP THEN Finite(0, 0)
        ELSE Finite(sign * n.m, n.e)

\* index after the run of ASCII digits of t that starts at i
RECURSIVE DigitsEnd(_, _)
DigitsEnd(t, i) ==
    IF i <= Len(t) /\ is_ascii_digit(t[i]) THEN DigitsEnd(t, i + 1) ELSE i

\* the number the digits t[i..j-1] spell after the digits that spell acc
RECURSIVE DigitsVal(_, _, _, _)
DigitsVal(t, i, j, acc) ==
    IF i >= j THEN acc ELSE DigitsVal(t, i + 1, j, 10 * acc + (t[i] - CH_0))

IsSign(c) == c \in {CH_PLUS, CH_MINUS}
IsExpMarker(c) == c \in {CH_e, CH_UPPER_E}

(***************************************************************************)
(* str::parse::<f64>() on the text t, by the grammar of f64's FromStr:     *)
(*   Number ::= [sign] ( Digit+ | Digit+ '.' Digit* | Digit* '.' Digit+ )  *)
(*              [ ('e' | 'E') [sign] Digit+ ]                              *)
(* (the texts "inf", "infinity", "nan" hold letters the lexer never        *)
(* accumulates).  Result: [ok |-> TRUE, val |-> f] or                      *)
(* [ok |-> FALSE, err |-> the ParseFloatError kind].                       *)
(* The text and the index each part of the grammar ends at are bound as   *)
(* values, as the locals of a scanner are: each is computed once.          *)
(***************************************************************************)
ParseF64(text) ==
    CHOOSE parsed \in
      { LET i0 == IF Len(t) >= 1 /\ IsSign(t[1]) THEN 2 ELSE 1
            sign == IF Len(t) >= 1 /\ t[1] = CH_MINUS THEN -1 ELSE 1
        IN  CHOOSE afterInt \in
              { LET hasDot == i1 <= Len(t) /\ t[i1] = CH_DOT
                    f0 == IF hasDot THEN i1 + 1 ELSE i1
                IN  CHOOSE afterFrac \in
                      { LET hasExp == f1 <= Len(t) /\ IsExpMarker(t[f1])
                            hasExpSign == hasExp /\ f1 + 1 <= Len(t) /\ IsSign(t[f1 + 1])
                            x0 == IF hasExpSign THEN f1 + 2 ELSE IF hasExp THEN f1 + 1 ELSE f1
                            expSign == IF hasExpSign /\ t[f1 + 1] = CH_MINUS THEN -1 ELSE 1
                            mant == DigitsVal(t, f0, f1, DigitsVal(t, i0, i1, 0))
                        IN  CHOOSE afterExp \in
                              { LET exp == expSign * DigitsVal(t, x0, x1, 0)
                                IN  IF Len(t) = 0 THEN [ok |-> FALSE, err |-> "Empty"]
                                    ELSE IF /\ (i1 - i0) + (f1 - f0) >= 1
                                            /\ (hasExp => x1 > x0)
                                            /\ x1 = Len(t) + 1
                                         THEN [ok |-> TRUE,
                                               val |-> ToF64(sign, mant, exp - (f1 - f0))]
                                         ELSE [ok |-> FALSE, err |-> "Invalid"]
                                : x1 \in {DigitsEnd(t, x0)} } : TRUE
                        : f1 \in {DigitsEnd(t, f0)} } : TRUE
                : i1 \in {DigitsEnd(t, i0)} } : TRUE
        : t \in {text} } : TRUE

(***************************************************************************)
(* tokenize.rs                                                             *)
(***************************************************************************)
is_number(ch) == ch = CH_MINUS \/ is_ascii_digit(ch)

\* the call site passes the iterator positioned on c itself, so peek() is c
is_exponenta(has_exponent, c, s, i) ==
    ~has_exponent /\ IsExpMarker(c) /\ HasNext(s, i)

\* a variant of is_decimal with the has_decimal test inverted
is_decimal_inverted(has_decimal, has_exponenta, c) ==
    c = CH_DOT /\ has_decimal /\ ~has_exponenta

is_decimal(has_decimal, has_exponenta, c) ==
    c = CH_DOT /\ ~has_decimal /\ ~has_exponenta

\* the `while let Some(&c) = chars.peek()` loop of tokenize_float and the
\* final parse of the accumulated text
RECURSIVE float_loop(_, _, _, _, _)
float_loop(s, i, unparsed_num, has_decimal, has_exponent) ==
    LET finish == LET f == ParseF64(unparsed_num)
                  IN  IF f.ok THEN LexOk(TokNumber(f.val), i)
                      ELSE LexErr(ParseNumberError(f.err), i)
    IN  IF ~HasNext(s, i) THEN finish
        ELSE LET c == s[i] IN
             IF is_ascii_digit(c)
             THEN float_loop(s, i + 1, Append(unparsed_num, c), has_decimal, has_exponent)
             ELSE IF is_exponenta(has_exponent, c, s, i)
             THEN LET signed == HasNext(s, i + 1) /\ IsSign(s[i + 1])
                      text == IF signed THEN unparsed_num \o <<c, s[i + 1]>>
                              ELSE Append(unparsed_num, c)
                      j == IF signed THEN i + 2 ELSE i + 1
                  IN  IF ~PeekIsDigit(s, j) THEN LexErr(InvalidNumber, j)
                      ELSE float_loop(s, j, text, has_decimal, TRUE)
             ELSE IF is_decimal(has_decimal, has_exponent, c)
             THEN float_loop(s, i + 1, Append(unparsed_num, CH_DOT), TRUE, has_exponent)
             ELSE finish

\* a variant of tokenize_float whose lexical validation rejects a `-` that
\* no digit follows
tokenize_float_minus_checked(s, i, ch) ==
    IF ch = CH_MINUS /\ ~PeekIsDigit(s, i) THEN LexErr(InvalidNumber, i)
    ELSE float_loop(s, IF ch = CH_MINUS /\ s[i] = CH_0 THEN i + 1 ELSE i,
                    IF ch = CH_MINUS /\ s[i] = CH_0 THEN <<ch, s[i]>> ELSE <<ch>>,
                    FALSE, FALSE)

\* a variant of tokenize_float without the two tests for a digit after a
\* leading zero
tokenize_float_any_zero(s, i, ch) ==
    LET minusZero == ch = CH_MINUS /\ HasNext(s, i) /\ s[i] = CH_0
        i1 == IF minusZero THEN i + 1 ELSE i
        text == IF minusZero THEN <<ch, s[i]>> ELSE <<ch>>
    IN  float_loop(s, i1, text, FALSE, FALSE)

\* ch is the character already taken; i is the cursor after it
tokenize_float(s, i, ch) ==
    LET minusZero == ch = CH_MINUS /\ HasNext(s, i) /\ s[i] = CH_0
        i1 == IF minusZero THEN i + 1 ELSE i
        text == IF minusZero THEN <<ch, s[i]>> ELSE <<ch>>
    IN  IF minusZero /\ PeekIsDigit(s, i1) THEN LexErr(InvalidNumber, i1)
        ELSE IF ch = CH_0 /\ PeekIsDigit(s, i1) THEN LexErr(InvalidNumber, i1)
        ELSE float_loop(s, i1, text, FALSE, FALSE)

RECURSIVE string_loop(_, _, _, _)

\* a variant of string_loop in which a backslash sets is_escaping instead of
\* toggling it
string_loop_sticky(s, i, string, is_escaping) ==
    IF ~HasNext(s, i) THEN LexErr(UnclosedQuotes, i)
    ELSE LET c == s[i] IN
         IF c = CH_QUOTE /\ ~is_escaping THEN LexOk(TokString(string), i + 1)
         ELSE IF c = CH_BACKSLASH
              THEN string_loop(s, i + 1, Append(string, c), TRUE)
              ELSE string_loop(s, i + 1, Append(string, c), FALSE)

\* the `while let Some(c) = chars.next()` loop of tokenize_string
string_loop(s, i, string, is_escaping) ==
    IF ~HasNext(s, i) THEN LexErr(UnclosedQuotes, i)
    ELSE LET c == s[i] IN
         IF c = CH_QUOTE /\ ~is_escaping THEN LexOk(TokString(string), i + 1)
         ELSE IF c = CH_BACKSLASH
              THEN string_loop(s, i + 1, Append(string, c), ~is_escaping)
              ELSE string_loop(s, i + 1, Append(string, c), FALSE)

tokenize_string(s, i) == string_loop(s, i, <<>>, FALSE)

RECURSIVE literal_loop(_, _, _, _)

\* a variant of literal_loop that also takes the character after the literal
literal_loop_swallows(s, i, expected, tok) ==
    IF expected = <<>> THEN LexOk(tok, i + 1)
    ELSE IF ~(HasNext(s, i) /\ s[i] = Head(expected)) THEN LexErr(UnfinishedLiteralValue, i)
    ELSE literal_loop(s, i + 1, Tail(expected), tok)

\* the `for expected_char in "...".chars()` loop shared by tokenize_true,
\* tokenize_false and tokenize_null
literal_loop(s, i, expected, tok) ==
    IF expected = <<>> THEN LexOk(tok, i)
    ELSE IF ~(HasNext(s, i) /\ s[i] = Head(expected)) THEN LexErr(UnfinishedLiteralValue, i)
    ELSE literal_loop(s, i + 1, Tail(expected), tok)

\* a variant of tokenize_true that is content with `ru`
tokenize_true_short(s, i) == literal_loop(s, i, <<CH_r, CH_u>>, TokTrue)

tokenize_true(s, i) == literal_loop(s, i, <<CH_r, CH_u, CH_e>>, TokTrue)
tokenize_false(s, i) == literal_loop(s, i, <<CH_a, CH_l, CH_s, CH_e>>, TokFalse)
tokenize_null(s, i) == literal_loop(s, i, <<CH_u, CH_l, CH_l>>, TokNull)

\* the `match ch` of make_token, ch not whitespace
dispatch(s, i, ch) ==
    IF is_number(ch) THEN tokenize_float(s, i, ch)
    ELSE IF ch = CH_QUOTE THEN tokenize_string(s, i)
    ELSE IF ch = CH_LBRACKET THEN LexOk(LeftBracket, i)
    ELSE IF ch = CH_RBRACKET THEN LexOk(RightBracket, i)
    ELSE IF ch = CH_LBRACE THEN LexOk(LeftBrace, i)
    ELSE IF ch = CH_RBRACE THEN LexOk(RightBrace, i)
    ELSE IF ch = CH_COMMA THEN LexOk(Comma, i)
    ELSE IF ch = CH_COLON THEN LexOk(Colon, i)
    ELSE IF ch = CH_t THEN tokenize_true(s, i)
    ELSE IF ch = CH_f THEN tokenize_false(s, i)
    ELSE IF ch = CH_n THEN tokenize_null(s, i)
    ELSE LexErr(CharNotRecognized(ch), i)

\* make_token: skip whitespace starting from the taken character ch, then
\* lex one token; whitespace with nothing after it is UnexpectedEof
RECURSIVE make_token(_, _, _)
make_token(s, i, ch) ==
    IF is_ascii_whitespace(ch)
    THEN IF ~HasNext(s, i) THEN LexErr(UnexpectedEof, i)
         ELSE make_token(s, i + 1, s[i])
    ELSE dispatch(s, i, ch)

\* tokenize: the `while let Some(c) = chars.next()` loop from cursor i with
\* the tokens toks pushed so far
RECURSIVE tokenize_from(_, _, _)
tokenize_from(s, i, toks) ==
    IF ~HasNext(s, i) THEN [ok |-> TRUE, tokens |-> toks]
    ELSE LET r == make_token(s, i + 1, s[i])
         IN  IF r.ok THEN tokenize_from(s, r.pos, Append(toks, r.tok))
             ELSE [ok |-> FALSE, err |-> r.err]

tokenize(s) == tokenize_from(s, 1, <<>>)

(***************************************************************************)
(* Values (enum Value, lib.rs) and the parser's errors (TokenParseError).  *)
(* An Object's HashMap is a function from keys to values.                  *)
(***************************************************************************)
Null == [type |-> "Null"]
Boolean(b) == [type |-> "Boolean", b |-> b]
String(str) == [type |-> "String", str |-> str]
Number(f) == [type |-> "Number", num |-> f]
Array(items) == [type |-> "Array", items |-> items]
Object(map) == [type |-> "Object", map |-> map]

\* HashMap::new()
EmptyMap == <<>>

\* a variant of Insert that keeps the value a key already has
Insert_keeps_first(map, key, value) ==
    [k \in DOMAIN map \cup {key} |-> IF k \in DOMAIN map THEN map[k] ELSE value]

\* HashMap::insert
Insert(map, key, value) ==
    [k \in DOMAIN map \cup {key} |-> IF k = key THEN value ELSE map[k]]

\* Ok(value) / Err(error) / a panic of a parsing function, with the token
\* cursor it leaves
POk(v, p) == [kind |-> "Ok", val |-> v, pos |-> p]
PErr(e, p) == [kind |-> "Err", err |-> e, pos |-> p]
PPanic(p) == [kind |-> "Panic", pos |-> p]

(***************************************************************************)
(* parse.rs: unescape_string                                               *)
(***************************************************************************)
IsHexDigit(c) == is_ascii_digit(c) \/ c \in CH_a..CH_f \/ c \in CH_UPPER_A..CH_UPPER_F

\* char::to_digit(16) of a hexadecimal digit
to_digit(c) ==
    IF is_ascii_digit(c) THEN c - CH_0
    ELSE IF c \in CH_a..CH_f THEN c - CH_a + 10
    ELSE c - CH_UPPER_A + 10

\* char::from_u32(sum).is_some(): a scalar value is no surrogate (a sum of
\* four hexadecimal digits is below 0x110000)
IsScalarValue(sum) == ~(sum \in SURROGATE_FIRST..SURROGATE_LAST)

\* the `for i in 0..4` loop of the `u` arm: k digits are still to be read
RECURSIVE hex_loop(_, _, _, _)
hex_loop(s, i, k, sum) ==
    IF k = 0 THEN [ok |-> TRUE, sum |-> sum, pos |-> i]
    ELSE IF ~HasNext(s, i) THEN [ok |-> FALSE, err |-> "UnfinishedEscape"]
    ELSE IF ~IsHexDigit(s[i]) THEN [ok |-> FALSE, err |-> "InvalidHexValue"]
    ELSE hex_loop(s, i + 1, k - 1, 16 * sum + to_digit(s[i]))

\* the character pushed for the escaped character c (c not `u`)
escape_char(c) ==
    IF c = CH_QUOTE THEN CH_QUOTE
    ELSE IF c = CH_BACKSLASH THEN CH_BACKSLASH
    ELSE IF c = CH_b THEN ESC_B
    ELSE IF c = CH_f THEN ESC_F
    ELSE IF c = CH_n THEN CH_LF
    ELSE IF c = CH_r THEN CH_CR
    ELSE IF c = CH_t THEN CH_TAB
    ELSE c

\* the `while let Some(next_char) = chars.next()` loop of unescape_string
RECURSIVE unescape_loop(_, _, _, _)
unescape_loop(s, i, output, is_escaping) ==
    IF ~HasNext(s, i) THEN [ok |-> TRUE, str |-> output]
    ELSE LET next_char == s[i] IN
         IF is_escaping
         THEN IF next_char = CH_u
              THEN LET h == hex_loop(s, i + 1, 4, 0)
                   IN  IF ~h.ok THEN [ok |-> FALSE, err |-> h.err]
                       ELSE IF ~IsScalarValue(h.sum)
                            THEN [ok |-> FALSE, err |-> "InvalidCodePointValue"]
                       ELSE unescape_loop(s, h.pos, Append(output, h.sum), FALSE)
              ELSE unescape_loop(s, i + 1, Append(output, escape_char(next_char)), FALSE)
         ELSE IF next_char = CH_BACKSLASH
              THEN unescape_loop(s, i + 1, output, TRUE)
              ELSE unescape_loop(s, i + 1, Append(output, next_char), FALSE)

\* a variant of unescape_string that returns the payload as it is
unescape_string_verbatim(s) == [ok |-> TRUE, str |-> s]

unescape_string(s) == unescape_loop(s, 1, <<>>, FALSE)

parse_string(s, p) ==
    LET u == unescape_string(s)
    IN  IF u.ok THEN POk(String(u.str), p) ELSE PErr(u.err, p)

(***************************************************************************)
(* parse.rs: parse_tokens, parse_array, parse_objects.  p is the token     *)
(* cursor: tokens.next() yields toks[p] and moves to p + 1, or yields None *)
(* and stays when p is past the end.                                       *)
(***************************************************************************)
PeekIs(toks, p, tok) == p <= Len(toks) /\ toks[p] = tok
PeekIsString(toks, p) == p <= Len(toks) /\ toks[p].type = "String"
Advance(toks, p) == IF p <= Len(toks) THEN p + 1 ELSE p

RECURSIVE parse_tokens(_, _)
RECURSIVE array_loop(_, _, _)
RECURSIVE object_loop(_, _, _)

parse_array(toks, p) == array_loop(toks, p, <<>>)

parse_objects(toks, p) == object_loop(toks, p, EmptyMap)

parse_tokens(toks, p) ==
    IF p > Len(toks) THEN PPanic(p)
    ELSE LET token == toks[p] IN
         IF token.type = "Null" THEN POk(Null, p + 1)
         ELSE IF token.type = "True" THEN POk(Boolean(TRUE), p + 1)
         ELSE IF token.type = "False" THEN POk(Boolean(FALSE), p + 1)
         ELSE IF token.type = "Number" THEN POk(Number(token.num), p + 1)
         ELSE IF token.type = "String" THEN parse_string(token.str, p + 1)
         ELSE IF token.type = "LeftBracket" THEN parse_array(toks, p + 1)
         ELSE IF token.type = "LeftBrace" THEN parse_objects(toks, p + 1)
         ELSE PPanic(p + 1)

\* a variant of array_loop that returns at `]` without the element just parsed
array_loop_drops_last(toks, p, array) ==
    IF p > Len(toks) THEN PPanic(p)
    ELSE IF toks[p] = RightBracket THEN POk(Array(array), p + 1)
    ELSE LET r == parse_tokens(toks, p) IN
         IF r.kind # "Ok" THEN r
         ELSE IF r.pos > Len(toks) THEN PPanic(r.pos)
         ELSE IF toks[r.pos] = Comma
              THEN array_loop(toks, r.pos + 1, Append(array, r.val))
         ELSE IF toks[r.pos] = RightBracket
              THEN POk(Array(array), r.pos + 1)
         ELSE PErr("ExpectedComma", r.pos + 1)

\* one turn of parse_array's loop, array holding the elements pushed so far
array_loop(toks, p, array) ==
    IF p > Len(toks) THEN PPanic(p)
    ELSE IF toks[p] = RightBracket THEN POk(Array(array), p + 1)
    ELSE LET r == parse_tokens(toks, p) IN
         IF r.kind # "Ok" THEN r
         ELSE IF r.pos > Len(toks) THEN PPanic(r.pos)
         ELSE IF toks[r.pos] = Comma
              THEN array_loop(toks, r.pos + 1, Append(array, r.val))
         ELSE IF toks[r.pos] = RightBracket
              THEN POk(Array(Append(array, r.val)), r.pos + 1)
         ELSE PErr("ExpectedComma", r.pos + 1)

\* a variant of object_loop that goes on to the next member without asking
\* for a `,` between members
object_loop_no_comma(toks, p, map) ==
    IF PeekIs(toks, p, RightBrace) THEN POk(Object(map), p + 1)
    ELSE IF ~PeekIsString(toks, p) THEN PErr("ExpectedProperty", Advance(toks, p))
    ELSE IF ~PeekIs(toks, p + 1, Colon) THEN PErr("ExpectedColon", Advance(toks, p + 1))
    ELSE LET key == unescape_string(toks[p].str) IN
         IF ~key.ok THEN PErr(key.err, p + 2)
         ELSE LET r == parse_tokens(toks, p + 2) IN
              IF r.kind # "Ok" THEN r
              ELSE LET m == Insert(map, key.str, r.val) IN
                   IF PeekIs(toks, r.pos, Comma) THEN object_loop(toks, r.pos + 1, m)
                   ELSE object_loop(toks, r.pos, m)

\* one turn of parse_objects' loop, map holding the members inserted so far
object_loop(toks, p, map) ==
    IF PeekIs(toks, p, RightBrace) THEN POk(Object(map), p + 1)
    ELSE IF ~PeekIsString(toks, p) THEN PErr("ExpectedProperty", Advance(toks, p))
    ELSE IF ~PeekIs(toks, p + 1, Colon) THEN PErr("ExpectedColon", Advance(toks, p + 1))
    ELSE LET key == unescape_string(toks[p].str) IN
         IF ~key.ok THEN PErr(key.err, p + 2)
         ELSE LET r == parse_tokens(toks, p + 2) IN
              IF r.kind # "Ok" THEN r
              ELSE LET m == Insert(map, key.str, r.val) IN
                   IF PeekIs(toks, r.pos, Comma) THEN object_loop(toks, r.pos + 1, m)
                   ELSE IF PeekIs(toks, r.pos, RightBrace) THEN POk(Object(m), r.pos + 1)
                   ELSE PErr("ExpectedComma", r.pos)

(***************************************************************************)
(* The parser's recursion, one step at a time.  A configuration is the     *)
(* stack of active parse_tokens activations, the token cursor p and the    *)
(* value the activation that just returned hands to its caller.  A frame   *)
(* is an activation: "value" when it has just been entered, "array" or     *)
(* "object" when it is inside parse_array or parse_objects, with the       *)
(* elements or members collected so far.                                   *)
(***************************************************************************)
NoRet == [some |-> FALSE]
Ret(v) == [some |-> TRUE, val |-> v]

ValueFrame == [kind |-> "value"]
ArrayFrame(array) == [kind |-> "array", array |-> array]
ObjectFrame(map, key) == [kind |-> "object", map |-> map, key |-> key]

Running(stack, p, ret) == [status |-> "run", stack |-> stack, p |-> p, ret |-> ret, err |-> ""]
Stopped(status, stack, p, err) == [status |-> status, stack |-> stack, p |-> p, ret |-> NoRet, err |-> err]

\* a variant of open_container in which the call of parse_array or
\* parse_objects is an activation on top of its caller
open_container_nested(stack, frame) == Append(stack, frame)

\* parse_tokens calls parse_array or parse_objects: the activation on top of
\* the stack goes on inside the container's loop
open_container(stack, frame) == [stack EXCEPT ![Len(stack)] = frame]

\* the activation on top returns v to its caller
return_value(stack, p, v) == Running(SubSeq(stack, 1, Len(stack) - 1), p, Ret(v))

\* one step of the activation on top of the stack
parse_step(toks, cfg) ==
    LET stack == cfg.stack
        top == stack[Len(stack)]
        p == cfg.p
    IN  IF top.kind = "value"
        THEN IF p > Len(toks) THEN Stopped("Panic", stack, p, "")
             ELSE LET r == parse_tokens(<<toks[p]>>, 1) IN
                  IF toks[p] = LeftBracket
                  THEN Running(open_container(stack, ArrayFrame(<<>>)), p + 1, NoRet)
                  ELSE IF toks[p] = LeftBrace
                  THEN Running(open_container(stack, ObjectFrame(EmptyMap, <<>>)), p + 1, NoRet)
                  ELSE IF r.kind = "Ok" THEN return_value(stack, p + 1, r.val)
                  ELSE IF r.kind = "Err" THEN Stopped("Err", stack, p + 1, r.err)
                  ELSE Stopped("Panic", stack, p + 1, "")
        ELSE IF top.kind = "array"
        THEN IF cfg.ret.some
             THEN LET array == Append(top.array, cfg.ret.val) IN
                  IF p > Len(toks) THEN Stopped("Panic", stack, p, "")
                  ELSE IF toks[p] = Comma
                       THEN Running(open_container(stack, ArrayFrame(array)), p + 1, NoRet)
                  ELSE IF toks[p] = RightBracket
                       THEN return_value(stack, p + 1, Array(array))
                  ELSE Stopped("Err", stack, p + 1, "ExpectedComma")
             ELSE IF p > Len(toks) THEN Stopped("Panic", stack, p, "")
                  ELSE IF toks[p] = RightBracket
                       THEN return_value(stack, p + 1, Array(top.array))
                  ELSE Running(Append(stack, ValueFrame), p, NoRet)
        ELSE IF cfg.ret.some
             THEN LET map == Insert(top.map, top.key, cfg.ret.val) IN
                  IF PeekIs(toks, p, Comma)
                  THEN Running(open_container(stack, ObjectFrame(map, <<>>)), p + 1, NoRet)
                  ELSE IF PeekIs(toks, p, RightBrace)
                       THEN return_value(stack, p + 1, Object(map))
                  ELSE Stopped("Err", stack, p, "ExpectedComma")
             ELSE IF PeekIs(toks, p, RightBrace)
                  THEN return_value(stack, p + 1, Object(top.map))
                  ELSE IF ~PeekIsString(toks, p)
                       THEN Stopped("Err", stack, Advance(toks, p), "ExpectedProperty")
                  ELSE IF ~PeekIs(toks, p + 1, Colon)
                       THEN Stopped("Err", stack, Advance(toks, p + 1), "ExpectedColon")
                  ELSE LET key == unescape_string(toks[p].str) IN
                       IF ~key.ok THEN Stopped("Err", stack, p + 2, key.err)
                       ELSE Running(Append(open_container(stack, ObjectFrame(top.map, key.str)),
                                           ValueFrame),
                                    p + 2, NoRet)

\* the configurations parse_tokens goes through from cfg, the last one
\* stopped or with the first activation returned
RECURSIVE parse_run(_, _)
parse_run(toks, cfg) ==
    IF cfg.status # "run" \/ cfg.stack = <<>> THEN <<cfg>>
    ELSE <<cfg>> \o parse_run(toks, parse_step(toks, cfg))

\* the call parse_tokens(tokens) of parse
ParseRun(toks) == parse_run(toks, Running(<<ValueFrame>>, 1, NoRet))

(***************************************************************************)
(* The tokenizer's loops, one iteration at a time.  A configuration holds  *)
(* the loop the tokenizer is in (mode), the character cursor i and the     *)
(* loop's local variables:                                                 *)
(*   "tokens"   tokenize's `while let Some(c) = chars.next()`              *)
(*   "ws"       make_token's `while ch.is_ascii_whitespace()`, and the     *)
(*              `match ch` after it                                        *)
(*   "number"   tokenize_float's `while let Some(&c) = chars.peek()`       *)
(*   "string"   tokenize_string's `while let Some(c) = chars.next()`       *)
(*   "literal"  the `for expected_char in ...` of the three keywords       *)
(***************************************************************************)
NoError == [err |-> "None"]

LexStart ==
    [ mode |-> "tokens", i |-> 1, ch |-> 0, text |-> <<>>, has_decimal |-> FALSE,
      has_exponent |-> FALSE, string |-> <<>>, is_escaping |-> FALSE,
      expected |-> <<>>, tok |-> TokNull, tokens |-> <<>>, status |-> "run",
      err |-> NoError ]

\* Err(e) returned through the `?`s up to tokenize's caller
LexFail(c, e, i) == [c EXCEPT !.status = "Err", !.err = e, !.i = i]

\* Ok(token) returned to tokenize's loop, which pushes it
LexPush(c, t, i) ==
    [c EXCEPT !.mode = "tokens", !.tokens = Append(c.tokens, t), !.i = i]

\* a variant of take_decimal that leaves the `.` in the iterator
take_decimal_stays(i) == i

\* the chars.next() of the `.` arm of tokenize_float
take_decimal(i) == i + 1

\* the `match ch` of make_token and what the lexer it calls does before its
\* loop
lex_dispatch(s, c) ==
    LET ch == c.ch
        i == c.i
        minusZero == ch = CH_MINUS /\ HasNext(s, i) /\ s[i] = CH_0
        i1 == IF minusZero THEN i + 1 ELSE i
    IN  IF is_number(ch)
        THEN IF (minusZero \/ ch = CH_0) /\ PeekIsDigit(s, i1)
             THEN LexFail(c, InvalidNumber, i1)
             ELSE [c EXCEPT !.mode = "number", !.i = i1,
                            !.text = IF minusZero THEN <<ch, s[i]>> ELSE <<ch>>,
                            !.has_decimal = FALSE, !.has_exponent = FALSE]
        ELSE IF ch = CH_QUOTE
        THEN [c EXCEPT !.mode = "string", !.string = <<>>, !.is_escaping = FALSE]
        ELSE IF ch = CH_t
        THEN [c EXCEPT !.mode = "literal", !.expected = <<CH_r, CH_u, CH_e>>, !.tok = TokTrue]
        ELSE IF ch = CH_f
        THEN [c EXCEPT !.mode = "literal", !.expected = <<CH_a, CH_l, CH_s, CH_e>>,
                       !.tok = TokFalse]
        ELSE IF ch = CH_n
        THEN [c EXCEPT !.mode = "literal", !.expected = <<CH_u, CH_l, CH_l>>, !.tok = TokNull]
        ELSE LET r == dispatch(s, i, ch)
             IN  IF r.ok THEN LexPush(c, r.tok, i) ELSE LexFail(c, r.err, i)

\* one iteration of the loop the configuration is in (or the loop's exit)
lex_step(s, c) ==
    LET i == c.i IN
    IF c.mode = "tokens"
    THEN IF ~HasNext(s, i) THEN [c EXCEPT !.status = "Ok"]
         ELSE [c EXCEPT !.mode = "ws", !.ch = s[i], !.i = i + 1]
    ELSE IF c.mode = "ws"
    THEN IF is_ascii_whitespace(c.ch)
         THEN IF ~HasNext(s, i) THEN LexFail(c, UnexpectedEof, i)
              ELSE [c EXCEPT !.ch = s[i], !.i = i + 1]
         ELSE lex_dispatch(s, c)
    ELSE IF c.mode = "number"
    THEN LET f == ParseF64(c.text)
             finish == IF f.ok THEN LexPush(c, TokNumber(f.val), i)
                       ELSE LexFail(c, ParseNumberError(f.err), i)
         IN  IF ~HasNext(s, i) THEN finish
             ELSE IF is_ascii_digit(s[i])
             THEN [c EXCEPT !.text = Append(c.text, s[i]), !.i = i + 1]
             ELSE IF is_exponenta(c.has_exponent, s[i], s, i)
             THEN LET signed == HasNext(s, i + 1) /\ IsSign(s[i + 1])
                      j == IF signed THEN i + 2 ELSE i + 1
                  IN  IF ~PeekIsDigit(s, j) THEN LexFail(c, InvalidNumber, j)
                      ELSE [c EXCEPT !.text = IF signed THEN c.text \o <<s[i], s[i + 1]>>
                                              ELSE Append(c.text, s[i]),
                                     !.has_exponent = TRUE, !.i = j]
             ELSE IF is_decimal(c.has_decimal, c.has_exponent, s[i])
             THEN [c EXCEPT !.text = Append(c.text, CH_DOT), !.has_decimal = TRUE,
                            !.i = take_decimal(i)]
             ELSE finish
    ELSE IF c.mode = "string"
    THEN IF ~HasNext(s, i) THEN LexFail(c, UnclosedQuotes, i)
         ELSE IF s[i] = CH_QUOTE /\ ~c.is_escaping THEN LexPush(c, TokString(c.string), i + 1)
         ELSE [c EXCEPT !.string = Append(c.string, s[i]), !.i = i + 1,
                        !.is_escaping = IF s[i] = CH_BACKSLASH THEN ~c.is_escaping ELSE FALSE]
    ELSE IF c.expected = <<>> THEN LexPush(c, c.tok, i)
         ELSE IF ~(HasNext(s, i) /\ s[i] = Head(c.expected))
              THEN LexFail(c, UnfinishedLiteralValue, i)
         ELSE [c EXCEPT !.expected = Tail(c.expected), !.i = i + 1]

\* the configurations tokenize(s) goes through from c, the last one stopped
RECURSIVE lex_run(_, _)
lex_run(s, c) ==
    IF c.status # "run" THEN <<c>> ELSE <<c>> \o lex_run(s, lex_step(s, c))

LexRun(s) == lex_run(s, LexStart)

(***************************************************************************)
(* unescape_string's loops, one iteration at a time: "chars" is the        *)
(* `while let Some(next_char) = chars.next()` loop, "hex" the              *)
(* `for i in 0..4` loop of the `u` arm, with k digits still to be read.    *)
(***************************************************************************)
RECURSIVE Pow16(_)
Pow16(n) == IF n = 0 THEN 1 ELSE 16 * Pow16(n - 1)

UnescapeStart ==
    [ mode |-> "chars", i |-> 1, output |-> <<>>, is_escaping |-> FALSE,
      k |-> 0, sum |-> 0, status |-> "run", err |-> "" ]

unescape_step(s, c) ==
    LET i == c.i IN
    IF c.mode = "chars"
    THEN IF ~HasNext(s, i) THEN [c EXCEPT !.status = "Ok"]
         ELSE IF c.is_escaping
              THEN IF s[i] = CH_u
                   THEN [c EXCEPT !.mode = "hex", !.k = 4, !.sum = 0, !.i = i + 1]
                   ELSE [c EXCEPT !.output = Append(c.output, escape_char(s[i])),
                                  !.is_escaping = FALSE, !.i = i + 1]
         ELSE IF s[i] = CH_BACKSLASH THEN [c EXCEPT !.is_escaping = TRUE, !.i = i + 1]
         ELSE [c EXCEPT !.output = Append(c.output, s[i]), !.i = i + 1]
    ELSE IF c.k = 0
         THEN IF ~IsScalarValue(c.sum)
              THEN [c EXCEPT !.status = "Err", !.err = "InvalidCodePointValue"]
              ELSE [c EXCEPT !.mode = "chars", !.output = Append(c.output, c.sum),
                             !.is_escaping = FALSE]
         ELSE IF ~HasNext(s, i) THEN [c EXCEPT !.status = "Err", !.err = "UnfinishedEscape"]
         ELSE IF ~IsHexDigit(s[i])
              THEN [c EXCEPT !.status = "Err", !.err = "InvalidHexValue", !.i = i + 1]
         ELSE [c EXCEPT !.sum = c.sum + Pow16(c.k - 1) * to_digit(s[i]),
                        !.k = c.k - 1, !.i = i + 1]

\* the configurations unescape_string(s) goes through from c
RECURSIVE unescape_run(_, _)
unescape_run(s, c) ==
    IF c.status # "run" THEN <<c>> ELSE <<c>> \o unescape_run(s, unescape_step(s, c))

UnescapeRun(s) == unescape_run(s, UnescapeStart)

(***************************************************************************)
(* lib.rs: parse(input) = tokenize(input)?, then parse_tokens on the       *)
(* token sequence.  The state is the position of one call of parse:        *)
(*   input, pos      the text and the character cursor of tokenize         *)
(*   tokens          the tokens pushed so far (the whole Vec at the end)   *)
(*   cursor          the token cursor of the parser                        *)
(*   pc              "tokenize", "parse" or "done"                         *)
(*   result          what parse returned, once pc = "done"                 *)
(***************************************************************************)
NoResult == [kind |-> "None"]
Ok(v) == [kind |-> "Ok", val |-> v]
ErrTokenize(e) == [kind |-> "Err", stage |-> "TokenizeError", err |-> e]
ErrParse(e) == [kind |-> "Err", stage |-> "ParseError", err |-> e]
Panic == [kind |-> "Panic"]

\* one turn of tokenize's loop that pushes a token
TokenizeNext ==
    /\ pc = "tokenize"
    /\ HasNext(input, pos)
    /\ LET r == make_token(input, pos + 1, input[pos])
       IN  /\ r.ok
           /\ tokens' = Append(tokens, r.tok)
           /\ pos' = r.pos
    /\ UNCHANGED <<input, cursor, pc, result>>

\* a variant of TokenizeFail that drops the error and hands the tokens pushed
\* so far to the parser
TokenizeFail_Swallowed ==
    /\ pc = "tokenize"
    /\ HasNext(input, pos)
    /\ LET r == make_token(input, pos + 1, input[pos])
       IN  /\ ~r.ok
           /\ pos' = r.pos
    /\ pc' = "parse"
    /\ UNCHANGED <<input, tokens, cursor, result>>

\* one turn of tokenize's loop in which make_token fails: `?` returns the
\* error from tokenize, and the `?` of parse returns it wrapped
TokenizeFail ==
    /\ pc = "tokenize"
    /\ HasNext(input, pos)
    /\ LET r == make_token(input, pos + 1, input[pos])
       IN  /\ ~r.ok
           /\ result' = ErrTokenize(r.err)
           /\ pos' = r.pos
    /\ pc' = "done"
    /\ UNCHANGED <<input, tokens, cursor>>

\* the loop of tokenize ends: Ok(tokens), and parse goes on to the parser
TokenizeEnd ==
    /\ pc = "tokenize"
    /\ ~HasNext(input, pos)
    /\ pc' = "parse"
    /\ UNCHANGED <<input, pos, tokens, cursor, result>>

\* parse_tokens(&mut tokens.into_iter().peekable())? and Ok(value)
ParseTokens ==
    /\ pc = "parse"
    /\ LET r == parse_tokens(tokens, cursor)
       IN  /\ cursor' = r.pos
           /\ result' = IF r.kind = "Ok" THEN Ok(r.val)
                        ELSE IF r.kind = "Err" THEN ErrParse(r.err)
                        ELSE Panic
    /\ pc' = "done"
    /\ UNCHANGED <<input, pos, tokens>>

Next == TokenizeNext \/ TokenizeFail \/ TokenizeEnd \/ ParseTokens

\* parse has returned: with the tokenizer's error, or after the parser ran
TokenizeFailed == pc = "done" /\ result.kind = "Err" /\ result.stage = "TokenizeError"
Parsed == pc = "done" /\ ~TokenizeFailed

\* all sequences over S of length at most n
SeqsUpTo(S, n) == UNION {[1..k -> S] : k \in 0..n}

RECURSIVE Flatten(_)
Flatten(ss) == IF ss = <<>> THEN <<>> ELSE Head(ss) \o Flatten(Tail(ss))

Start(s) ==
    /\ input = s
    /\ pos = 1
    /\ tokens = <<>>
    /\ cursor = 1
    /\ pc = "tokenize"
    /\ result = NoResult

(***************************************************************************)
(* Spec: parse on documents made of at most MaxPieces lexical pieces.      *)
(***************************************************************************)
MaxPieces == 3

Pieces ==
    { <<CH_LBRACKET>>, <<CH_RBRACKET>>, <<CH_LBRACE>>, <<CH_RBRACE>>,
      <<CH_COMMA>>, <<CH_COLON>>, <<CH_QUOTE>>, <<CH_a>>, <<CH_0 + 1>>,
      <<CH_SPACE>>, <<CH_LF>>,
      <<CH_n, CH_u, CH_l, CH_l>>, <<CH_t, CH_r, CH_u, CH_e>>,
      <<CH_f, CH_a, CH_l, CH_s, CH_e>> }

Documents == {Flatten(ps) : ps \in SeqsUpTo(Pieces, MaxPieces)}

Init == \E s \in Documents : Start(s)

Spec == Init /\ [][Next]_vars

(***************************************************************************)
(* C1  parse never panics: for every input it returns Ok(Value) or         *)
(* Err(ParseError).  Stated of the result of every finished call.          *)
(***************************************************************************)
C1_ParseNeverPanics == pc = "done" => result.kind \in {"Ok", "Err"}

(***************************************************************************)
(* C2  Whitespace does not change the tokens.  Cuts(s, i) are the cursor   *)
(* positions at which tokenize's loop asks for the next token (the         *)
(* positions before, between and after the tokens).                        *)
(***************************************************************************)
RECURSIVE Cuts(_, _)
Cuts(s, i) ==
    IF ~HasNext(s, i) THEN {i}
    ELSE LET r == make_token(s, i + 1, s[i])
         IN  IF r.ok THEN {i} \cup Cuts(s, r.pos) ELSE {i}

InsertAt(s, k, w) == SubSeq(s, 1, k - 1) \o w \o SubSeq(s, k, Len(s))

WhitespaceRuns == {<<CH_SPACE>>, <<CH_LF>>, <<CH_SPACE, CH_TAB>>}

\* C2: when tokenize succeeds on the input with tokens T, it succeeds with
\* exactly T on the input with a whitespace run inserted before, between or
\* after its tokens.
C2_WhitespaceLeavesTokens ==
    pc = "parse" =>
        \A k \in Cuts(input, 1) : \A w \in WhitespaceRuns :
            tokenize(InsertAt(input, k, w)) = [ok |-> TRUE, tokens |-> tokens]

(***************************************************************************)
(* SpecTokens: parse at the point where tokenize has returned, for every   *)
(* token sequence of at most MaxTokens tokens and for the token sequences  *)
(* of sample arrays.  Unlex(toks) is a text tokenize turns into toks.      *)
(***************************************************************************)
MaxTokens == 5

Lexeme(tok) ==
    IF tok.type = "LeftBrace" THEN <<CH_LBRACE>>
    ELSE IF tok.type = "RightBrace" THEN <<CH_RBRACE>>
    ELSE IF tok.type = "LeftBracket" THEN <<CH_LBRACKET>>
    ELSE IF tok.type = "RightBracket" THEN <<CH_RBRACKET>>
    ELSE IF tok.type = "Comma" THEN <<CH_COMMA>>
    ELSE IF tok.type = "Colon" THEN <<CH_COLON>>
    ELSE IF tok.type = "Null" THEN <<CH_n, CH_u, CH_l, CH_l>>
    ELSE IF tok.type = "True" THEN <<CH_t, CH_r, CH_u, CH_e>>
    ELSE IF tok.type = "False" THEN <<CH_f, CH_a, CH_l, CH_s, CH_e>>
    ELSE <<CH_QUOTE>> \o tok.str \o <<CH_QUOTE>>

RECURSIVE Unlex(_)
Unlex(toks) ==
    IF toks = <<>> THEN <<>> ELSE Lexeme(Head(toks)) \o Unlex(Tail(toks))

StrA == <<CH_a>>
StrB == <<CH_b>>

TokenAlphabet ==
    { LeftBracket, RightBracket, LeftBrace, RightBrace, Comma, Colon,
      TokNull, TokString(StrA) }

TokenSeqs == SeqsUpTo(TokenAlphabet, MaxTokens)

\* the token sequences of sample arrays: at most MaxWidth elements, each a
\* scalar, an array of at most MaxWidth scalars, or an object
MaxWidth == 2

RECURSIVE JoinComma(_)
JoinComma(segs) ==
    IF segs = <<>> THEN <<>>
    ELSE IF Len(segs) = 1 THEN Head(segs)
    ELSE Head(segs) \o <<Comma>> \o JoinComma(Tail(segs))

Bracketed(segs) == <<LeftBracket>> \o JoinComma(segs) \o <<RightBracket>>

SampleScalars == {<<TokNull>>, <<TokString(StrA)>>}

SampleElements ==
    SampleScalars
    \cup {Bracketed(segs) : segs \in SeqsUpTo(SampleScalars, MaxWidth)}
    \cup { <<LeftBrace, RightBrace>>,
           <<LeftBrace, TokString(StrB), Colon, TokNull, RightBrace>> }

SampleArrays == {Bracketed(segs) : segs \in SeqsUpTo(SampleElements, MaxWidth)}

\* sample objects: `{`, at most MaxWidth well-formed members, and then any
\* MaxTail tokens or fewer
MaxTail == 2

SampleMembers ==
    { <<TokString(k), Colon>> \o v :
          k \in {StrA, StrB}, v \in {<<TokNull>>, <<LeftBracket, RightBracket>>} }

SampleObjects ==
    { <<LeftBrace>> \o JoinComma(ms) \o tail :
          ms \in SeqsUpTo(SampleMembers, MaxWidth),
          tail \in SeqsUpTo(TokenAlphabet, MaxTail) }

Tokenized(toks) ==
    /\ input = Unlex(toks)
    /\ pos = Len(input) + 1
    /\ tokens = toks
    /\ cursor = 1
    /\ pc = "parse"
    /\ result = NoResult

\* sample nestings: null inside at most MaxDepth arrays and objects, each
\* object holding it as the value of the key "a"
MaxDepth == 4

RECURSIVE Nested(_, _)
Nested(opens, inner) ==
    IF opens = <<>> THEN inner
    ELSE IF Head(opens) = LeftBracket
         THEN <<LeftBracket>> \o Nested(Tail(opens), inner) \o <<RightBracket>>
         ELSE <<LeftBrace, TokString(StrA), Colon>> \o Nested(Tail(opens), inner)
              \o <<RightBrace>>

SampleNestings ==
    {Nested(opens, <<TokNull>>) : opens \in SeqsUpTo({LeftBracket, LeftBrace}, MaxDepth)}

InitTokens ==
    \E toks \in TokenSeqs \cup SampleArrays \cup SampleObjects \cup SampleNestings :
        Tokenized(toks)

SpecTokens == InitTokens /\ [][ParseTokens]_vars

(***************************************************************************)
(* C3  Trailing commas are not accepted: a token sequence in which the     *)
(* parser meets a `,` immediately followed by the closing `]` or `}`       *)
(* never yields Ok.  (Both tokens lie before the final cursor, so they     *)
(* are tokens the parser consumed, not tokens left over after the value.)  *)
(***************************************************************************)
TrailingCommaAt(toks, i) ==
    /\ i + 1 <= Len(toks)
    /\ toks[i] = Comma
    /\ toks[i + 1] \in {RightBracket, RightBrace}

C3_TrailingCommaRejected ==
    (pc = "done" /\ \E i \in 1..Len(tokens) :
                        TrailingCommaAt(tokens, i) /\ i + 1 < cursor)
        => result.kind # "Ok"

(***************************************************************************)
(* SpecScalars: parse on the texts of at most MaxScalarLen characters a    *)
(* number is written with, and on the three keywords.                      *)
(***************************************************************************)
MaxScalarLen == 5

ScalarChars ==
    {CH_MINUS, CH_PLUS, CH_DOT, CH_e, CH_UPPER_E, CH_0, CH_0 + 1, CH_0 + 2}

Keywords ==
    { <<CH_n, CH_u, CH_l, CH_l>>, <<CH_t, CH_r, CH_u, CH_e>>,
      <<CH_f, CH_a, CH_l, CH_s, CH_e>> }

InitScalars == \E s \in SeqsUpTo(ScalarChars, MaxScalarLen) \cup Keywords : Start(s)

SpecScalars == InitScalars /\ [][Next]_vars

\* JSON's number production,
\*     -?(0|[1-9][0-9]*)(\.[0-9]+)?([eE][+-]?[0-9]+)?
\* JsonNumberShape(s) places the parts of s: the integer part is
\* s[int0..int1-1], the fraction digits s[frac0..frac1-1], the exponent
\* digits s[exp0..exp1-1]; ok says that s matches the production.
JsonNumberShape(s) ==
    LET n == Len(s)
        neg == n >= 1 /\ s[1] = CH_MINUS
        int0 == IF neg THEN 2 ELSE 1
        intOk == int0 <= n /\ is_ascii_digit(s[int0])
        int1 == IF intOk /\ s[int0] = CH_0 THEN int0 + 1 ELSE DigitsEnd(s, int0)
        hasFrac == int1 <= n /\ s[int1] = CH_DOT
        frac0 == IF hasFrac THEN int1 + 1 ELSE int1
        frac1 == IF hasFrac THEN DigitsEnd(s, frac0) ELSE frac0
        hasExp == frac1 <= n /\ s[frac1] \in {CH_e, CH_UPPER_E}
        expNeg == hasExp /\ frac1 + 1 <= n /\ s[frac1 + 1] = CH_MINUS
        expPos == hasExp /\ frac1 + 1 <= n /\ s[frac1 + 1] = CH_PLUS
        exp0 == IF expNeg \/ expPos THEN frac1 + 2 ELSE IF hasExp THEN frac1 + 1 ELSE frac1
        exp1 == IF hasExp THEN DigitsEnd(s, exp0) ELSE exp0
    IN  [ ok |-> /\ intOk
                 /\ (hasFrac => frac1 > frac0)
                 /\ (hasExp => exp1 > exp0)
                 /\ exp1 = n + 1,
          neg |-> neg, int0 |-> int0, int1 |-> int1, frac0 |-> frac0,
          frac1 |-> frac1, expNeg |-> expNeg, exp0 |-> exp0, exp1 |-> exp1 ]

IsJsonNumber(s) == JsonNumberShape(s).ok

\* s without its leading ASCII whitespace
RECURSIVE TrimLeft(_)
TrimLeft(s) ==
    IF s # <<>> /\ is_ascii_whitespace(Head(s)) THEN TrimLeft(Tail(s)) ELSE s

(***************************************************************************)
(* C4  Number lexing enforces JSON's number production: the characters     *)
(* every step of tokenize turns into a Number token match it.              *)
(***************************************************************************)
C4_NumberLexemesAreJsonNumbers ==
    [][ (/\ pc = "tokenize"
         /\ Len(tokens') = Len(tokens) + 1
         /\ tokens'[Len(tokens')].type = "Number")
        => IsJsonNumber(TrimLeft(SubSeq(input, pos, pos' - 1))) ]_vars

(***************************************************************************)
(* SpecStrings: parse on a string literal whose body has at most           *)
(* MaxBodyLen characters, alone (a string value) or as the key of a        *)
(* one-member object.                                                      *)
(***************************************************************************)
MaxBodyLen == 4

StringChars ==
    {CH_BACKSLASH, CH_QUOTE, CH_a, CH_b, CH_f, CH_n, CH_r, CH_t, CH_u}

Quoted(body) == <<CH_QUOTE>> \o body \o <<CH_QUOTE>>

AsKey(body) ==
    <<CH_LBRACE>> \o Quoted(body) \o <<CH_COLON, CH_n, CH_u, CH_l, CH_l, CH_RBRACE>>

\* bodies that are one `\u` escape with at most MaxHexLen characters after
\* the `u` (0, 8, d, F, and n, which is no hexadecimal digit), and bodies
\* that are two complete `\u` escapes over the digits 8 and d, surrogate
\* pairs such as \ud888\udd88 among them
MaxHexLen == 4

HexChars == {CH_0, CH_0 + 8, CH_a + 3, CH_UPPER_F, CH_n}

UnicodeEscape(h) == <<CH_BACKSLASH, CH_u>> \o h

UnicodeBodies ==
    {UnicodeEscape(h) : h \in SeqsUpTo(HexChars, MaxHexLen)}
    \cup {UnicodeEscape(h1) \o UnicodeEscape(h2) :
              h1 \in [1..4 -> {CH_0 + 8, CH_a + 3}],
              h2 \in [1..4 -> {CH_0 + 8, CH_a + 3}]}

InitStrings ==
    \E body \in SeqsUpTo(StringChars, MaxBodyLen) \cup UnicodeBodies :
        Start(Quoted(body)) \/ Start(AsKey(body))

SpecStrings == InitStrings /\ [][Next]_vars

\* the payload of the String token the parser unescaped, as a value or as a key
IsStringDoc == Len(tokens) = 1 /\ tokens[1].type = "String"
IsKeyDoc ==
    /\ Len(tokens) = 5
    /\ tokens[2].type = "String"
    /\ tokens = <<LeftBrace, tokens[2], Colon, TokNull, RightBrace>>

(***************************************************************************)
(* C5  The unescaping the claim describes, for a payload with no `\u`:     *)
(* a backslash and the character after it become one character (quote,     *)
(* backslash, U+0008 for b, U+000C for f, U+000A for n, U+000D for r,      *)
(* U+0009 for t, any other character itself), the rest is copied.          *)
(***************************************************************************)
C5_Escaped(c) ==
    CASE c = CH_b -> 8
      [] c = CH_f -> 12
      [] c = CH_n -> 10
      [] c = CH_r -> 13
      [] c = CH_t -> 9
      [] OTHER -> c

RECURSIVE C5_Unescaped(_)
C5_Unescaped(p) ==
    IF p = <<>> THEN <<>>
    ELSE IF Head(p) = CH_BACKSLASH
         THEN IF Len(p) = 1 THEN <<>>
              ELSE <<C5_Escaped(p[2])>> \o C5_Unescaped(SubSeq(p, 3, Len(p)))
         ELSE <<Head(p)>> \o C5_Unescaped(Tail(p))

RECURSIVE HasUnicodeEscape(_)
HasUnicodeEscape(p) ==
    IF Len(p) < 2 THEN FALSE
    ELSE IF Head(p) = CH_BACKSLASH
         THEN p[2] = CH_u \/ HasUnicodeEscape(SubSeq(p, 3, Len(p)))
         ELSE HasUnicodeEscape(Tail(p))

\* C5: a string value and an object key without `\u` are unescaped as the
\* claim describes.
C5_UnescapeMapsEscapes ==
    /\ (Parsed /\ IsStringDoc /\ ~HasUnicodeEscape(tokens[1].str))
           => result = Ok(String(C5_Unescaped(tokens[1].str)))
    /\ (Parsed /\ IsKeyDoc /\ ~HasUnicodeEscape(tokens[2].str))
           => result = Ok(Object(Insert(EmptyMap, C5_Unescaped(tokens[2].str), Null)))

(***************************************************************************)
(* C6  A String token whose payload contains an escaped backslash (two     *)
(* consecutive backslashes, as in hello\\world).  The payloads considered  *)
(* have no other escape: reading left to right, every backslash is the     *)
(* first or the second of such a pair.                                     *)
(***************************************************************************)
RECURSIVE OnlyEscapedBackslashes(_)
OnlyEscapedBackslashes(p) ==
    IF p = <<>> THEN TRUE
    ELSE IF Head(p) = CH_BACKSLASH
         THEN Len(p) >= 2 /\ p[2] = CH_BACKSLASH
              /\ OnlyEscapedBackslashes(SubSeq(p, 3, Len(p)))
         ELSE OnlyEscapedBackslashes(Tail(p))

HasBackslash(p) == \E i \in 1..Len(p) : p[i] = CH_BACKSLASH

\* p with every pair of backslashes replaced by one backslash
RECURSIVE Collapse(_)
Collapse(p) ==
    IF p = <<>> THEN <<>>
    ELSE IF Head(p) = CH_BACKSLASH
         THEN <<CH_BACKSLASH>> \o Collapse(SubSeq(p, 3, Len(p)))
         ELSE <<Head(p)>> \o Collapse(Tail(p))

EscapedBackslashDoc ==
    /\ Parsed
    /\ IsStringDoc
    /\ HasBackslash(tokens[1].str)
    /\ OnlyEscapedBackslashes(tokens[1].str)

C7_TokenizeBeforeParse ==
    LET t == tokenize(input) IN
    /\ (pc = "parse" \/ Parsed) =>
           /\ pos = Len(input) + 1
           /\ t = [ok |-> TRUE, tokens |-> tokens]
    /\ ~t.ok =>
           /\ pc # "parse"
           /\ cursor = 1
           /\ pc = "done" => result = ErrTokenize(t.err)
    /\ (pc = "done" /\ result.kind = "Err" /\ result.stage = "ParseError") => t.ok

\* tokenize fails after tokens that by themselves have a parse-stage defect
\* (such as `{:a`), and parse returns the tokenizer's error
C7_Witness ==
    /\ TokenizeFailed
    /\ tokens # <<>>
    /\ parse_tokens(tokens, 1).kind = "Err"
    /\ result = ErrTokenize(tokenize(input).err)
    /\ result.err.err = "CharNotRecognized"

(***************************************************************************)
(* C8  Scalar literals.  The numeric value of a JSON number literal s is   *)
(* mant * 10^exp10 with, for the parts JsonNumberShape places,             *)
(*   mant  = (+/-) the integer digits followed by the fraction digits,     *)
(*   exp10 = (+/-) the exponent digits, less the number of fraction digits *)
(* and the Number it must give is the double of that value.                *)
(***************************************************************************)
LiteralMantissa(s) ==
    LET sh == JsonNumberShape(s)
        digits == DigitsVal(s, sh.frac0, sh.frac1, DigitsVal(s, sh.int0, sh.int1, 0))
    IN  IF sh.neg THEN -digits ELSE digits

LiteralExp10(s) ==
    LET sh == JsonNumberShape(s)
        x == DigitsVal(s, sh.exp0, sh.exp1, 0)
    IN  (IF sh.expNeg THEN -x ELSE x) - (sh.frac1 - sh.frac0)

Abs(n) == IF n < 0 THEN -n ELSE n

\* the double f is the double of mant * 10^exp10
IsDoubleOf(f, mant, exp10) ==
    LET sci == exp10 + NumDigits(Abs(mant)) - 1 IN
    IF mant = 0 THEN f = Finite(0, 0)
    ELSE IF sci > F64_MAX_10_EXP THEN f = Infinite(IF mant < 0 THEN -1 ELSE 1)
    ELSE IF sci < F64_MIN_10_EXP THEN f = Finite(0, 0)
    ELSE /\ f.cls = "finite"
         /\ f.e >= exp10
         /\ f.e - exp10 <= 9
         /\ f.m * 10^(f.e - exp10) = mant

\* C8: a scalar literal alone as the input parses to the corresponding Value.
C8_ScalarLiteralsRoundTrip ==
    pc = "done" =>
        /\ input = <<CH_n, CH_u, CH_l, CH_l>> => result = Ok(Null)
        /\ input = <<CH_t, CH_r, CH_u, CH_e>> => result = Ok(Boolean(TRUE))
        /\ input = <<CH_f, CH_a, CH_l, CH_s, CH_e>> => result = Ok(Boolean(FALSE))
        /\ IsJsonNumber(input) =>
               /\ result.kind = "Ok"
               /\ result.val.type = "Number"
               /\ IsDoubleOf(result.val.num, LiteralMantissa(input), LiteralExp10(input))

\* the literal -2e-1 has parsed to the Number -0.2, and 1.2e1 would parse to 12
C8_Witness ==
    /\ pc = "done"
    /\ input = <<CH_MINUS, CH_0 + 2, CH_e, CH_MINUS, CH_0 + 1>>
    /\ result = Ok(Number(Finite(-2, -1)))

(***************************************************************************)
(* Well-formed values, read off the token sequence without a cursor: a     *)
(* bracket is paired with the token that brings the nesting depth back to  *)
(* zero, and what lies between the pair is split at the commas of depth    *)
(* zero.  ValueOf(toks, a, b) is [ok, val] for the tokens toks[a..b]: ok   *)
(* when they are exactly one well-formed value, val that value.            *)
(***************************************************************************)
IsOpen(tok) == tok \in {LeftBracket, LeftBrace}
IsClose(tok) == tok \in {RightBracket, RightBrace}

\* the index in q..b of the token that closes `depth` open brackets, 0 if none
RECURSIVE CloseOf(_, _, _, _)
CloseOf(toks, q, b, depth) ==
    IF q > b THEN 0
    ELSE IF IsOpen(toks[q]) THEN CloseOf(toks, q + 1, b, depth + 1)
    ELSE IF IsClose(toks[q])
         THEN IF depth = 1 THEN q ELSE CloseOf(toks, q + 1, b, depth - 1)
    ELSE CloseOf(toks, q + 1, b, depth)

\* the index in q..b of the first comma at nesting depth zero, 0 if none
RECURSIVE TopComma(_, _, _, _)
TopComma(toks, q, b, depth) ==
    IF q > b THEN 0
    ELSE IF IsOpen(toks[q]) THEN TopComma(toks, q + 1, b, depth + 1)
    ELSE IF IsClose(toks[q]) THEN TopComma(toks, q + 1, b, depth - 1)
    ELSE IF toks[q] = Comma /\ depth = 0 THEN q
    ELSE TopComma(toks, q + 1, b, depth)

NotWellFormed == [ok |-> FALSE]

RECURSIVE ValueOf(_, _, _)
RECURSIVE ElementsOf(_, _, _)
RECURSIVE MembersOf(_, _, _, _)

\* toks[a..b], not empty, as values separated by commas: [ok, vals]
ElementsOf(toks, a, b) ==
    LET c == TopComma(toks, a, b, 0)
        first == ValueOf(toks, a, IF c = 0 THEN b ELSE c - 1)
        rest == ElementsOf(toks, c + 1, b)
    IN  IF a > b \/ ~first.ok THEN NotWellFormed
        ELSE IF c = 0 THEN [ok |-> TRUE, vals |-> <<first.val>>]
        ELSE IF ~rest.ok THEN NotWellFormed
        ELSE [ok |-> TRUE, vals |-> <<first.val>> \o rest.vals]

\* toks[a..b], not empty, as `key : value` members separated by commas,
\* inserted in order into map: [ok, map]
MembersOf(toks, a, b, map) ==
    LET c == TopComma(toks, a, b, 0)
        e == IF c = 0 THEN b ELSE c - 1
        key == unescape_string(toks[a].str)
        v == ValueOf(toks, a + 2, e)
    IN  IF a + 2 > e \/ toks[a].type # "String" \/ toks[a + 1] # Colon
        THEN NotWellFormed
        ELSE IF ~key.ok \/ ~v.ok THEN NotWellFormed
        ELSE IF c = 0 THEN [ok |-> TRUE, map |-> Insert(map, key.str, v.val)]
        ELSE MembersOf(toks, c + 1, b, Insert(map, key.str, v.val))

ValueOf(toks, a, b) ==
    IF a > b THEN NotWellFormed
    ELSE IF a = b
    THEN LET tok == toks[a] IN
         IF tok.type = "Null" THEN [ok |-> TRUE, val |-> Null]
         ELSE IF tok.type = "True" THEN [ok |-> TRUE, val |-> Boolean(TRUE)]
         ELSE IF tok.type = "False" THEN [ok |-> TRUE, val |-> Boolean(FALSE)]
         ELSE IF tok.type = "Number" THEN [ok |-> TRUE, val |-> Number(tok.num)]
         ELSE IF tok.type = "String"
              THEN LET u == unescape_string(tok.str)
                   IN  IF u.ok THEN [ok |-> TRUE, val |-> String(u.str)]
                       ELSE NotWellFormed
         ELSE NotWellFormed
    ELSE IF CloseOf(toks, a, b, 0) # b THEN NotWellFormed
    ELSE IF toks[a] = LeftBracket /\ toks[b] = RightBracket
    THEN IF a + 1 = b THEN [ok |-> TRUE, val |-> Array(<<>>)]
         ELSE LET es == ElementsOf(toks, a + 1, b - 1)
              IN  IF es.ok THEN [ok |-> TRUE, val |-> Array(es.vals)]
                  ELSE NotWellFormed
    ELSE IF toks[a] = LeftBrace /\ toks[b] = RightBrace
    THEN IF a + 1 = b THEN [ok |-> TRUE, val |-> Object(EmptyMap)]
         ELSE LET ms == MembersOf(toks, a + 1, b - 1, EmptyMap)
              IN  IF ms.ok THEN [ok |-> TRUE, val |-> Object(ms.map)]
                  ELSE NotWellFormed
    ELSE NotWellFormed

(***************************************************************************)
(* C9  Arrays.                                                             *)
(*  - When the tokens start with a well-formed array `[` v1 `,` ... vn `]` *)
(*    (n >= 0, the elements possibly nested), parse_tokens returns the     *)
(*    Array of the n values in order and its cursor is just after the      *)
(*    matching `]`.                                                        *)
(*  - When, inside the first array (or inside arrays opened at its very    *)
(*    start), well-formed elements separated by commas are followed by a   *)
(*    token that is neither `,` nor `]`, the result is ExpectedComma.      *)
(***************************************************************************)
C9_ArrayOfElementsInOrder ==
    (Parsed /\ tokens # <<>> /\ tokens[1] = LeftBracket) =>
        LET close == CloseOf(tokens, 1, Len(tokens), 0)
            v == ValueOf(tokens, 1, close)
        IN  /\ (close # 0 /\ v.ok) =>
                   /\ result = Ok(v.val)
                   /\ cursor = close + 1
            /\ \A d \in 1..Len(tokens) : \A k \in (d + 1)..(Len(tokens) - 1) :
                   (/\ \A i \in 1..d : tokens[i] = LeftBracket
                    /\ ElementsOf(tokens, d + 1, k).ok
                    /\ tokens[k + 1] \notin {Comma, RightBracket})
                   => result = ErrParse("ExpectedComma")

\* the nested array [["a", null], {"b": null}] has parsed, and its cursor
\* is after the last of its 13 tokens
C9_Witness ==
    /\ Parsed
    /\ tokens = Bracketed(<< Bracketed(<< <<TokString(StrA)>>, <<TokNull>> >>),
                            <<LeftBrace, TokString(StrB), Colon, TokNull, RightBrace>> >>)
    /\ result = Ok(Array(<< Array(<<String(StrA), Null>>),
                           Object(Insert(EmptyMap, StrB, Null)) >>))
    /\ cursor = Len(tokens) + 1

(***************************************************************************)
(* C10  Objects, for the object the tokens start with.  A member starts    *)
(* after the `{` and after the `,` that follows a run of well-formed       *)
(* members.                                                                *)
(*  - `{` `}` is the empty object;                                         *)
(*  - where a member starts, a token that is not a String (a `}` ends the  *)
(*    object instead), or no token, gives ExpectedProperty;                *)
(*  - a String there that is not followed by `:` gives ExpectedColon;      *)
(*  - after well-formed members, `}` ends the object, which holds the      *)
(*    members; a token that is neither `,` nor `}`, or no token, gives     *)
(*    ExpectedComma.                                                       *)
(***************************************************************************)
\* toks[2..k] are well-formed members separated by commas
MembersUpTo(toks, k) == k >= 2 /\ MembersOf(toks, 2, k, EmptyMap).ok

\* a member starts at index s of toks
MemberStartsAt(toks, s) ==
    \/ s = 2
    \/ /\ s - 1 <= Len(toks)
       /\ toks[s - 1] = Comma
       /\ MembersUpTo(toks, s - 2)

RECURSIVE MemberPairs(_, _, _)
MemberPairs(toks, a, b) ==
    LET c == TopComma(toks, a, b, 0)
        e == IF c = 0 THEN b ELSE c - 1
        key == unescape_string(toks[a].str)
        v == ValueOf(toks, a + 2, e)
        rest == MemberPairs(toks, c + 1, b)
    IN  IF a + 2 > e \/ toks[a].type # "String" \/ toks[a + 1] # Colon
        THEN NotWellFormed
        ELSE IF ~key.ok \/ ~v.ok THEN NotWellFormed
        ELSE IF c = 0 THEN [ok |-> TRUE, pairs |-> << [key |-> key.str, val |-> v.val] >>]
        ELSE IF ~rest.ok THEN NotWellFormed
        ELSE [ok |-> TRUE, pairs |-> << [key |-> key.str, val |-> v.val] >> \o rest.pairs]

\* the index of the last pair of ps with the key k
LastOccurrence(ps, k) ==
    CHOOSE i \in 1..Len(ps) :
        ps[i].key = k /\ \A j \in (i + 1)..Len(ps) : ps[j].key # k

C11_LastWriteWins ==
    (Parsed /\ Len(tokens) >= 5 /\ tokens[1] = LeftBrace) =>
        LET close == CloseOf(tokens, 1, Len(tokens), 0)
            ms == MemberPairs(tokens, 2, close - 1)
        IN  (close >= 5 /\ tokens[close] = RightBrace /\ ms.ok) =>
                /\ result.kind = "Ok"
                /\ result.val.type = "Object"
                /\ DOMAIN result.val.map = {ms.pairs[i].key : i \in 1..Len(ms.pairs)}
                /\ \A k \in DOMAIN result.val.map :
                       result.val.map[k] = ms.pairs[LastOccurrence(ms.pairs, k)].val

\* {"a": null, "a": []} has parsed to the single entry a -> []
C11_Witness ==
    /\ Parsed
    /\ tokens = << LeftBrace, TokString(StrA), Colon, TokNull, Comma,
                   TokString(StrA), Colon, LeftBracket, RightBracket, RightBrace >>
    /\ result = Ok(Object(Insert(EmptyMap, StrA, Array(<<>>))))
    /\ DOMAIN result.val.map = {StrA}

(***************************************************************************)
(* C12  Leading zero.  ZeroThenDigitAt(s, i): the number that starts at i  *)
(* has, after an optional `-`, the first digit `0` with an ASCII digit     *)
(* right after it.  ZeroAloneAt(s, i): its first digit is `0` and no digit *)
(* follows.                                                                *)
(*  - a step of tokenize that starts on such a number fails with           *)
(*    InvalidNumber and pushes no token;                                   *)
(*  - a step that starts on a `0` not followed by a digit does not fail    *)
(*    with InvalidNumber, unless an exponent marker comes later in the     *)
(*    text (the exponent rule has its own InvalidNumber).                  *)
(***************************************************************************)
ZeroAt(s, i) ==
    LET z == IF HasNext(s, i) /\ s[i] = CH_MINUS THEN i + 1 ELSE i
    IN  [is |-> HasNext(s, z) /\ s[z] = CH_0, next |-> z + 1]

ZeroThenDigitAt(s, i) == ZeroAt(s, i).is /\ PeekIsDigit(s, ZeroAt(s, i).next)
ZeroAloneAt(s, i) == ZeroAt(s, i).is /\ ~PeekIsDigit(s, ZeroAt(s, i).next)

HasExpMarkerFrom(s, i) == \E j \in i..Len(s) : IsExpMarker(s[j])

C12_LeadingZeroRejected ==
    [][ /\ (pc = "tokenize" /\ ZeroThenDigitAt(input, pos)) =>
               /\ pc' = "done"
               /\ result' = ErrTokenize(InvalidNumber)
               /\ tokens' = tokens
        /\ (pc = "tokenize" /\ ZeroAloneAt(input, pos) /\ ~HasExpMarkerFrom(input, pos)) =>
               result' # ErrTokenize(InvalidNumber) ]_vars

\* -012 was rejected with InvalidNumber and no token
C12_Witness ==
    /\ pc = "done"
    /\ input = <<CH_MINUS, CH_0, CH_0 + 1, CH_0 + 2>>
    /\ result = ErrTokenize(InvalidNumber)
    /\ tokens = <<>>

(***************************************************************************)
(* C13  A leading `-` that is followed by neither a digit nor `.` (the     *)
(* second `-` of --123, any other character, or the end of the input).     *)
(* ExpWithoutDigitsAt(s, i): an exponent marker stands at i and no digit   *)
(* follows it and its optional sign.                                       *)
(***************************************************************************)
MinusAloneAt(s, i) ==
    /\ HasNext(s, i)
    /\ s[i] = CH_MINUS
    /\ ~PeekIsDigit(s, i + 1)
    /\ ~(HasNext(s, i + 1) /\ s[i + 1] = CH_DOT)

ExpWithoutDigitsAt(s, i) ==
    /\ HasNext(s, i)
    /\ IsExpMarker(s[i])
    /\ LET j == IF HasNext(s, i + 1) /\ IsSign(s[i + 1]) THEN i + 2 ELSE i + 1
       IN  ~PeekIsDigit(s, j)

C14_HexDigits ==
    << <<48, 0>>, <<49, 1>>, <<50, 2>>, <<51, 3>>, <<52, 4>>, <<53, 5>>,
       <<54, 6>>, <<55, 7>>, <<56, 8>>, <<57, 9>>,
       <<97, 10>>, <<98, 11>>, <<99, 12>>, <<100, 13>>, <<101, 14>>, <<102, 15>>,
       <<65, 10>>, <<66, 11>>, <<67, 12>>, <<68, 13>>, <<69, 14>>, <<70, 15>> >>

C14_IsHex(c) == \E k \in 1..Len(C14_HexDigits) : C14_HexDigits[k][1] = c
C14_HexVal(c) ==
    C14_HexDigits[CHOOSE k \in 1..Len(C14_HexDigits) : C14_HexDigits[k][1] = c][2]

RECURSIVE C14_Unescaped(_)
C14_Unescaped(p) ==
    IF p = <<>> THEN [kind |-> "Ok", str |-> <<>>]
    ELSE IF Head(p) # CH_BACKSLASH
    THEN LET rest == C14_Unescaped(Tail(p))
         IN  IF rest.kind = "Ok" THEN [kind |-> "Ok", str |-> <<Head(p)>> \o rest.str]
             ELSE rest
    ELSE IF Len(p) < 2 \/ p[2] # CH_u THEN [kind |-> "NotCovered"]
    ELSE IF Len(p) - 2 < 4 THEN [kind |-> "Err", err |-> "UnfinishedEscape"]
    ELSE IF \E k \in 3..6 : ~C14_IsHex(p[k]) THEN [kind |-> "Err", err |-> "InvalidHexValue"]
    ELSE LET cp == 4096 * C14_HexVal(p[3]) + 256 * C14_HexVal(p[4])
                   + 16 * C14_HexVal(p[5]) + C14_HexVal(p[6])
             rest == C14_Unescaped(SubSeq(p, 7, Len(p)))
         IN  IF cp \in 55296..57343 THEN [kind |-> "Err", err |-> "InvalidCodePointValue"]
             ELSE IF rest.kind = "Ok" THEN [kind |-> "Ok", str |-> <<cp>> \o rest.str]
             ELSE rest

HasUnicodeEscapeStart(p) == \E i \in 1..(Len(p) - 1) : p[i] = CH_BACKSLASH /\ p[i + 1] = CH_u

\* C14: a string value whose payload has `\u` escapes unescapes to what the
\* claim describes, error or text.
C14_UnicodeEscapes ==
    (Parsed /\ IsStringDoc /\ HasUnicodeEscapeStart(tokens[1].str)) =>
        LET ref == C14_Unescaped(tokens[1].str)
        IN  /\ ref.kind = "Ok" => result = Ok(String(ref.str))
            /\ ref.kind = "Err" => result = ErrParse(ref.err)

(***************************************************************************)
(* C15  String lexing.  BackslashRun(s, j, lo) is the number of            *)
(* consecutive backslashes that end right before index j, none before lo.  *)
(* ClosingQuote(s, i) is the index of the first `"` at or after i that an  *)
(* even number of them precedes, counted from the start i of the string's  *)
(* body; 0 if there is none.  A step of tokenize that starts on a `"`      *)
(* pushes the String token of the characters between that quote and the    *)
(* closing quote, unchanged, and leaves the cursor after the closing       *)
(* quote; without a closing quote it fails with UnclosedQuotes.            *)
(***************************************************************************)
RECURSIVE BackslashRun(_, _, _)
BackslashRun(s, j, lo) ==
    IF j - 1 >= lo /\ s[j - 1] = CH_BACKSLASH THEN 1 + BackslashRun(s, j - 1, lo) ELSE 0

ClosingQuotes(s, i) ==
    {j \in i..Len(s) : s[j] = CH_QUOTE /\ BackslashRun(s, j, i) % 2 = 0}

ClosingQuote(s, i) ==
    IF ClosingQuotes(s, i) = {} THEN 0
    ELSE CHOOSE j \in ClosingQuotes(s, i) : \A k \in ClosingQuotes(s, i) : j <= k

C15_StringLexing ==
    [][ (pc = "tokenize" /\ HasNext(input, pos) /\ input[pos] = CH_QUOTE) =>
            LET close == ClosingQuote(input, pos + 1)
            IN  IF close = 0
                THEN /\ pc' = "done"
                     /\ result' = ErrTokenize(UnclosedQuotes)
                     /\ tokens' = tokens
                ELSE /\ pc' = "tokenize"
                     /\ tokens' = Append(tokens, TokString(SubSeq(input, pos + 1, close - 1)))
                     /\ pos' = close + 1 ]_vars

\* "\\"a" has been lexed up to the quote after the two backslashes: the
\* payload is the two backslashes and the cursor is on the a
C15_Witness ==
    /\ input = Quoted(<<CH_BACKSLASH, CH_BACKSLASH, CH_QUOTE, CH_a>>)
    /\ tokens = <<TokString(<<CH_BACKSLASH, CH_BACKSLASH>>)>>
    /\ pos = 5

(***************************************************************************)
(* C16  The exponent of a number.  A step of tokenize that starts on a     *)
(* number moves the cursor from pos to pos'; the characters in between are *)
(* the ones the number lexer took, so an exponent marker among them is a   *)
(* marker it accepted.                                                     *)
(*  - an accepted marker has at least one more character after it in the   *)
(*    input;                                                               *)
(*  - at most one marker is accepted;                                      *)
(*  - when no digit follows the marker and its optional sign, the step     *)
(*    fails with InvalidNumber;                                            *)
(*  - no `.` is taken after the marker.                                    *)
(***************************************************************************)
MarkersIn(s, lo, hi) == {j \in lo..hi : IsExpMarker(s[j])}

AfterExpSign(s, j) == IF HasNext(s, j + 1) /\ IsSign(s[j + 1]) THEN j + 2 ELSE j + 1

C16_ExponentMarker ==
    [][ (pc = "tokenize" /\ HasNext(input, pos) /\ is_number(input[pos])) =>
            LET taken == MarkersIn(input, pos, pos' - 1)
            IN  /\ \A j \in taken : HasNext(input, j + 1)
                /\ Cardinality(taken) <= 1
                /\ \A j \in taken :
                       ~PeekIsDigit(input, AfterExpSign(input, j)) =>
                           /\ pc' = "done"
                           /\ result' = ErrTokenize(InvalidNumber)
                           /\ tokens' = tokens
                /\ \A j \in taken : \A k \in (j + 1)..(pos' - 1) : input[k] # CH_DOT ]_vars

(***************************************************************************)
(* C17  parse returns Ok only when the root value accounts for the whole   *)
(* token sequence: at an Ok result the parser's cursor is past the last    *)
(* token.                                                                  *)
(***************************************************************************)
C17_OkConsumesAllTokens ==
    (pc = "done" /\ result.kind = "Ok") => cursor = Len(tokens) + 1

(***************************************************************************)
(* C18  tokenize partitions the input.  A step that pushes a token moves   *)
(* the cursor from pos to pos': the characters in between, less the        *)
(* leading whitespace, are the token's lexeme.                             *)
(*  - the cursor starts before the first character, every step starts      *)
(*    where the one before it ended and moves forward, and tokenize        *)
(*    returns Ok only with the cursor past the last character: the spans   *)
(*    of the steps follow one another without gap or overlap, in the order *)
(*    of the tokens;                                                       *)
(*  - the lexeme is not empty and is exactly the text of the token pushed  *)
(*    (the punctuation character, the keyword, the quoted payload, or a    *)
(*    number text whose value is the token's), so a character after it,    *)
(*    such as the `,` of `true,`, is left for the next step.               *)
(***************************************************************************)
IsLexemeOf(lex, tok) ==
    IF tok.type = "Number"
    THEN /\ \A k \in 1..Len(lex) :
                is_ascii_digit(lex[k]) \/ IsSign(lex[k]) \/ IsExpMarker(lex[k]) \/ lex[k] = CH_DOT
         /\ ParseF64(lex) = [ok |-> TRUE, val |-> tok.num]
    ELSE lex = Lexeme(tok)

C18_TokensPartitionInput ==
    [][ /\ pc = "tokenize" => pos <= Len(input) + 1
        /\ pc' = "parse" => pos' = Len(input) + 1
        /\ (pc = "tokenize" /\ pc' = "tokenize") =>
               LET lex == TrimLeft(SubSeq(input, pos, pos' - 1))
               IN  /\ pos' > pos
                   /\ pos' <= Len(input) + 1
                   /\ Len(tokens') = Len(tokens) + 1
                   /\ SubSeq(tokens', 1, Len(tokens)) = tokens
                   /\ lex # <<>>
                   /\ IsLexemeOf(lex, tokens'[Len(tokens')]) ]_vars

\* true, has been tokenized: the `,` that ended the literal is a token of
\* its own
C18_Witness ==
    /\ pc = "parse"
    /\ input = <<CH_t, CH_r, CH_u, CH_e, CH_COMMA>>
    /\ tokens = <<TokTrue, Comma>>
    /\ pos = 6

(***************************************************************************)
(* SpecLiterals: parse on a keyword or the start of a keyword, followed by *)
(* at most MaxLiteralTail more characters.                                 *)
(***************************************************************************)
MaxLiteralTail == 2

LiteralChars ==
    {CH_t, CH_r, CH_u, CH_e, CH_f, CH_a, CH_l, CH_s, CH_n, CH_COMMA, CH_SPACE}

KeywordStarts == {SubSeq(w, 1, k) : w \in Keywords, k \in 1..4}

InitLiterals ==
    \E w \in KeywordStarts : \E tail \in SeqsUpTo(LiteralChars, MaxLiteralTail) :
        Start(w \o tail)

SpecLiterals == InitLiterals /\ [][Next]_vars

(***************************************************************************)
(* C19  Literals.  A step of tokenize that starts on `t`, `f` or `n`       *)
(* pushes the one token True, False or Null and leaves the cursor right    *)
(* after `true`, `false` or `null` when the input goes on with exactly     *)
(* `rue`, `alse` or `ull`; with any other character, or the end of the     *)
(* input, before the literal is complete it fails with                     *)
(* UnfinishedLiteralValue.                                                 *)
(***************************************************************************)
KeywordOf(c) ==
    IF c = CH_t THEN [word |-> <<CH_t, CH_r, CH_u, CH_e>>, tok |-> TokTrue]
    ELSE IF c = CH_f THEN [word |-> <<CH_f, CH_a, CH_l, CH_s, CH_e>>, tok |-> TokFalse]
    ELSE [word |-> <<CH_n, CH_u, CH_l, CH_l>>, tok |-> TokNull]

C19_LiteralsMatchExactly ==
    [][ (pc = "tokenize" /\ HasNext(input, pos) /\ input[pos] \in {CH_t, CH_f, CH_n}) =>
            LET kw == KeywordOf(input[pos])
                end == pos + Len(kw.word) - 1
            IN  IF end <= Len(input) /\ SubSeq(input, pos, end) = kw.word
                THEN /\ pc' = "tokenize"
                     /\ tokens' = Append(tokens, kw.tok)
                     /\ pos' = end + 1
                ELSE /\ pc' = "done"
                     /\ result' = ErrTokenize(UnfinishedLiteralValue)
                     /\ tokens' = tokens ]_vars

\* trux failed with UnfinishedLiteralValue
C19_Witness ==
    /\ pc = "done"
    /\ input = <<CH_t, CH_r, CH_u, CH_s>>
    /\ result = ErrTokenize(UnfinishedLiteralValue)
    /\ tokens = <<>>

(***************************************************************************)
(* C20  Recursion and nesting.  At a configuration of the parser the       *)
(* active parse_tokens activations are the frames of the stack and the     *)
(* arrays and objects currently open are the frames that are inside        *)
(* parse_array or parse_objects.                                           *)
(***************************************************************************)
Opens(stack) == Cardinality({i \in 1..Len(stack) : stack[i].kind \in {"array", "object"}})

\* what parse returns after the last configuration of a run
RunResult(cfg) ==
    IF cfg.status = "run" THEN Ok(cfg.ret.val)
    ELSE IF cfg.status = "Err" THEN ErrParse(cfg.err)
    ELSE Panic

\* the configurations gone through are those of the call that gave result
RunIsTheParse(toks) ==
    LET last == ParseRun(toks)[Len(ParseRun(toks))]
    IN  result = RunResult(last) /\ cursor = last.p

TokenParseErrors ==
    { "UnfinishedEscape", "InvalidHexValue", "InvalidCodePointValue",
      "ExpectedComma", "ExpectedProperty", "ExpectedColon" }

\* no outcome is a rejection for depth: an error is one of the six of
\* TokenParseError, and the sample nestings parse
NoDepthLimit ==
    /\ (result.kind = "Err" => result.err \in TokenParseErrors)
    /\ (tokens \in SampleNestings => result.kind = "Ok")

\* C20 as claimed: at every point the activations are one more than the
\* open arrays and objects.
C20_ActivationsAreOpensPlusOne ==
    Parsed =>
        /\ RunIsTheParse(tokens)
        /\ \A i \in 1..Len(ParseRun(tokens)) :
               LET stack == ParseRun(tokens)[i].stack
               IN  stack # <<>> => Len(stack) = 1 + Opens(stack)
        /\ NoDepthLimit

\* C20 as amended: the activations are one more than the open arrays and
\* objects while the innermost activation has not opened an array or object
\* (it has just been entered, or is a scalar's), and as many as the open
\* arrays and objects while the innermost activation is inside its array or
\* object.
C20_ActivationsFollowNesting ==
    Parsed =>
        /\ RunIsTheParse(tokens)
        /\ \A i \in 1..Len(ParseRun(tokens)) :
               LET stack == ParseRun(tokens)[i].stack
               IN  stack # <<>> =>
                       Len(stack) = Opens(stack)
                                    + (IF stack[Len(stack)].kind = "value" THEN 1 ELSE 0)
        /\ NoDepthLimit

\* [{"a": [{"a": null}]}] has parsed, with five activations while null was read
C20_Witness ==
    /\ Parsed
    /\ tokens = Nested(<<LeftBracket, LeftBrace, LeftBracket, LeftBrace>>, <<TokNull>>)
    /\ result.kind = "Ok"
    /\ \E i \in 1..Len(ParseRun(tokens)) :
           /\ Len(ParseRun(tokens)[i].stack) = 5
           /\ Opens(ParseRun(tokens)[i].stack) = 4

(***************************************************************************)
(* SpecTermination: one call of parse, run to its end, on documents of at  *)
(* most MaxParts parts.  The call is sequential code that nothing can      *)
(* hold up, so a step that can be taken is taken: weak fairness of Next.   *)
(***************************************************************************)
MaxParts == 3

TerminationParts ==
    { <<CH_LBRACKET>>, <<CH_RBRACKET>>, <<CH_COMMA>>, <<CH_RBRACE>>, <<CH_SPACE>>,
      <<CH_QUOTE>>,
      <<CH_LBRACE, CH_QUOTE, CH_a, CH_QUOTE, CH_COLON>>,
      <<CH_n, CH_u, CH_l, CH_l>>,
      <<CH_t, CH_r, CH_u>>,
      <<CH_MINUS, CH_0 + 1, CH_DOT, CH_0 + 5, CH_e, CH_PLUS, CH_0 + 2>>,
      <<CH_QUOTE, CH_BACKSLASH, CH_n, CH_BACKSLASH, CH_u, CH_0, CH_0, CH_0 + 4, CH_0 + 1,
        CH_QUOTE>> }

InitTermination ==
    \E parts \in SeqsUpTo(TerminationParts, MaxParts) : Start(Flatten(parts))

SpecTermination == InitTermination /\ [][Next]_vars /\ WF_vars(Next)

(***************************************************************************)
(* C21  Every call of parse finishes.                                      *)
(*  - the call reaches its end (with a value, an error or a panic);        *)
(*  - the character cursor and the token cursor never move back; a step    *)
(*    that pushes a token has moved the character cursor, and the parser,  *)
(*    given a token, has moved the token cursor: the tokens a step takes   *)
(*    lie after those taken before, so none is taken twice;                *)
(*  - in the runs of the tokenizer, of the parser and of unescape_string   *)
(*    the cursor never moves back, and between two configurations at the   *)
(*    head of the same loop it has moved forward: an iteration that does   *)
(*    not leave its loop has taken a character or a token.  (The runs are  *)
(*    the calls themselves: they end as tokenize, parse_tokens and         *)
(*    unescape_string do.)                                                 *)
(***************************************************************************)
CursorsForward ==
    /\ pos' >= pos
    /\ cursor' >= cursor
    /\ tokens' # tokens => pos' > pos
    /\ (pc = "parse" /\ tokens # <<>>) => cursor' > cursor

LexLoopsProgress(s) ==
    \E tr \in {LexRun(s)} :
    LET last == tr[Len(tr)]
    IN  /\ tokenize(s) = IF last.status = "Ok" THEN [ok |-> TRUE, tokens |-> last.tokens]
                         ELSE [ok |-> FALSE, err |-> last.err]
        /\ \A l \in 1..Len(tr) : \A k \in 1..(l - 1) :
               /\ tr[k].i <= tr[l].i
               /\ (tr[l].status = "run" /\ tr[k].mode = tr[l].mode) => tr[k].i < tr[l].i

\* the loop the innermost activation is in, and where in its iteration
LoopHead(cfg) ==
    << Len(cfg.stack), cfg.stack[Len(cfg.stack)].kind, cfg.ret.some >>

ParseLoopsProgress(toks) ==
    \E tr \in {ParseRun(toks)} : \E r \in {parse_tokens(toks, 1)} :
    LET last == tr[Len(tr)]
    IN  /\ r.pos = last.p
        /\ r.kind = IF last.status = "run" THEN "Ok" ELSE last.status
        /\ r.kind = "Ok" => r.val = last.ret.val
        /\ r.kind = "Err" => r.err = last.err
        /\ \A l \in 1..Len(tr) : \A k \in 1..(l - 1) :
               /\ tr[k].p <= tr[l].p
               /\ (/\ tr[l].status = "run"
                   /\ tr[l].stack # <<>>
                   /\ LoopHead(tr[k]) = LoopHead(tr[l])) => tr[k].p < tr[l].p

UnescapeLoopsProgress(s) ==
    \E tr \in {UnescapeRun(s)} :
    LET last == tr[Len(tr)]
    IN  /\ unescape_string(s) = IF last.status = "Ok" THEN [ok |-> TRUE, str |-> last.output]
                                ELSE [ok |-> FALSE, err |-> last.err]
        /\ \A l \in 1..Len(tr) : \A k \in 1..(l - 1) :
               /\ tr[k].i <= tr[l].i
               /\ (tr[l].status = "run" /\ tr[k].mode = tr[l].mode) => tr[k].i < tr[l].i

\* the loops of the call, stated where tokenize starts and where the parser
\* starts
LoopsProgress ==
    /\ (pc = "tokenize" /\ pos = 1) => LexLoopsProgress(input)
    /\ pc = "parse" =>
           /\ ParseLoopsProgress(tokens)
           /\ \A k \in 1..Len(tokens) :
                  tokens[k].type = "String" => UnescapeLoopsProgress(tokens[k].str)

C21_ParseTerminates ==
    /\ <>(pc = "done")
    /\ [][CursorsForward]_vars
    /\ [](LoopsProgress)

\* {"a":"\nA"} has been parsed to the end: five tokens, all taken
C21_Witness ==
    /\ pc = "done"
    /\ Len(tokens) = 5
    /\ tokens[1] = LeftBrace
    /\ tokens[4] = TokString(<<CH_BACKSLASH, CH_n, CH_BACKSLASH, CH_u, CH_0, CH_0, CH_0 + 4, CH_0 + 1>>)
    /\ result = Ok(Object(Insert(EmptyMap, StrA, String(<<CH_LF, CH_UPPER_A>>))))
    /\ pos = Len(input) + 1
    /\ cursor = 6

====
